---- MODULE Spec2Model ----
(***************************************************************************)
(* A model of pyubx2.py: the integer conversion helpers bytes2val and      *)
(* val2bytes, the UBXMessage constructor and UBXReader.read(), which takes *)
(* one UBX frame from a byte stream.                                       *)
(*                                                                         *)
(* A byte is an integer in 0..255, a bytes object a sequence of bytes.     *)
(* The stream is a file-like object: read(n) hands out the next n bytes,   *)
(* fewer when the data ends, and raises once the stream is closed/broken.  *)
(***************************************************************************)
EXTENDS Integers, Sequences, FiniteSets, TLC

VARIABLES
    stream,       \* the bytes the underlying stream holds (self.stream)
    pos,          \* the stream's cursor: number of bytes already consumed
    closed,       \* TRUE once the underlying stream is closed or broken
    msgclass,     \* self.msgclass: class filter, None when absent
    msgid,        \* self.msgid: id filter, None when absent
    quitonerror,  \* self.quitonerror
    validate,     \* self.validate
    results,      \* what the successive calls of read() gave their caller
    conv,         \* one application of bytes2val / val2bytes
    built         \* one UBXMessage the caller builds directly

vars ==
    <<stream, pos, closed, msgclass, msgid, quitonerror, validate, results, conv, built>>

readerVars == <<stream, pos, closed, msgclass, msgid, quitonerror, validate, results>>

-----------------------------------------------------------------------------
(* Bounds of the model *)

MaxPayload == 2     \* longest payload of a framed message
MaxFrames == 2      \* most frames concatenated on one stream
MaxGarbage == 3     \* most garbage bytes ahead of a frame
MaxWidth == 2       \* widest integer converted by bytes2val / val2bytes

\* calls of read() the caller makes on one stream
MaxCalls == MaxFrames + 3

-----------------------------------------------------------------------------
(* Constants of the program *)

UBX_HDR == <<181, 98>>

NMEA_PROTOCOL == 1

UBX_PROTOCOL == 2

\* Python's None, for an absent filter
None == -1

Min(a, b) == IF a < b THEN a ELSE b

RECURSIVE Pow256(_)
Pow256(n) == IF n = 0 THEN 1 ELSE 256 * Pow256(n - 1)

-----------------------------------------------------------------------------
(* Helper functions *)

\* int.from_bytes(b, byteorder=...); the empty bytes object gives 0
RECURSIVE IntFromBytesBig(_)
IntFromBytesBig(b) ==
    IF b = <<>> THEN 0
    ELSE 256 * IntFromBytesBig(SubSeq(b, 1, Len(b) - 1)) + b[Len(b)]

\* the same bytes taken most significant byte first
IntFromBytesLittle_asBig(b) == IntFromBytesBig(b)

RECURSIVE IntFromBytesLittle(_)
IntFromBytesLittle(b) ==
    IF b = <<>> THEN 0
    ELSE b[1] + 256 * IntFromBytesLittle(Tail(b))

\* int.to_bytes raises OverflowError when the value does not fit the length
OverflowError == <<-1>>

IntToBytesLittle(val, length) ==
    IF val < 0 \/ val >= Pow256(length) THEN OverflowError
    ELSE [i \in 1..length |-> (val \div Pow256(i - 1)) % 256]

\* the value laid out least significant byte first
IntToBytesBig_asLittle(val, length) == IntToBytesLittle(val, length)

IntToBytesBig(val, length) ==
    IF val < 0 \/ val >= Pow256(length) THEN OverflowError
    ELSE [i \in 1..length |-> (val \div Pow256(length - i)) % 256]

bytes2val(bytesval, bitfield) ==
    IF bitfield THEN IntFromBytesLittle(bytesval)
    ELSE IntFromBytesBig(bytesval)

val2bytes(val, length, bitfield) ==
    IF bitfield THEN IntToBytesLittle(val, length)
    ELSE IntToBytesBig(val, length)

-----------------------------------------------------------------------------
(* UBXMessage *)

\* the payload argument left out or passed as None (no bytes object)
NonePayload == <<None>>

\* Python's truth value of the payload argument: None and b"" are false
Truthy(payload) == payload # NonePayload /\ payload # <<>>

\* class and id stored in each other's place
UBXMessage_swapped(mclass, mid, payload) ==
    [msgclass |-> mid,
     msgid |-> mclass,
     payload |-> IF Truthy(payload) THEN payload ELSE <<>>,
     length |-> Len(IF Truthy(payload) THEN payload ELSE <<>>)]

\* the payload argument stored as passed, the length taken from the default
UBXMessage_rawpayload(mclass, mid, payload) ==
    [msgclass |-> mclass,
     msgid |-> mid,
     payload |-> payload,
     length |-> Len(IF Truthy(payload) THEN payload ELSE <<>>)]

UBXMessage(mclass, mid, payload) ==
    [msgclass |-> mclass,
     msgid |-> mid,
     payload |-> IF Truthy(payload) THEN payload ELSE <<>>,
     length |-> Len(IF Truthy(payload) THEN payload ELSE <<>>)]

\* stands where read() returned no UBXMessage
NoMessage == [msgclass |-> None, msgid |-> None, payload |-> <<>>, length |-> 0]

-----------------------------------------------------------------------------
(* UBXReader.read *)

\* stream.read(n) at cursor p: the next n bytes, fewer at the end of the data
StreamRead(s, p, n) == SubSeq(s, p + 1, Min(p + n, Len(s)))

\* One call of read() on stream s with the cursor at p. brk = k > 0: the
\* stream breaks at the k-th stream.read of this call; a closed stream
\* fails the first one. The result records what the caller gets (kind:
\* "msg" a UBXMessage, "none" None, "raise" UBXStreamError), the locals
\* length and checksum, whether the except clause ran and the cursor
\* before (start) and after (end) the call.
ReadCall(s, p, isclosed, brk, qoe) ==
    LET f == IF isclosed THEN 1 ELSE brk
        header == StreamRead(s, p, 2)
        p1 == p + Len(header)
        classbytes == StreamRead(s, p1, 1)
        p2 == p1 + Len(classbytes)
        idbytes == StreamRead(s, p2, 1)
        p3 == p2 + Len(idbytes)
        lenbytes == StreamRead(s, p3, 2)
        p4 == p3 + Len(lenbytes)
        length == IntFromBytesLittle(lenbytes)
        payload == StreamRead(s, p4, length)
        p5 == p4 + Len(payload)
        checksum == StreamRead(s, p5, 2)
        p6 == p5 + Len(checksum)
        Except(pp, len) ==
            [kind |-> IF qoe THEN "raise" ELSE "none", msg |-> NoMessage,
             length |-> len, checksum |-> <<>>, caught |-> TRUE,
             start |-> p, end |-> pp]
    IN  IF f = 1 THEN Except(p, None)
        ELSE IF header # UBX_HDR THEN
            [kind |-> "none", msg |-> NoMessage, length |-> None,
             checksum |-> <<>>, caught |-> FALSE, start |-> p, end |-> p1]
        ELSE IF f = 2 THEN Except(p1, None)
        ELSE IF f = 3 THEN Except(p2, None)
        ELSE IF f = 4 THEN Except(p3, None)
        ELSE IF f = 5 THEN Except(p4, length)
        ELSE IF f = 6 THEN Except(p5, length)
        ELSE
            [kind |-> "msg",
             msg |-> UBXMessage(IntFromBytesLittle(classbytes),
                                IntFromBytesLittle(idbytes), payload),
             length |-> length, checksum |-> checksum, caught |-> FALSE,
             start |-> p, end |-> p6]

-----------------------------------------------------------------------------
(* Frames put on the stream *)

\* the two 8-bit accumulators over class, id, length and payload
RECURSIVE CalcChecksum(_, _, _)
CalcChecksum(content, ck_a, ck_b) ==
    IF content = <<>> THEN <<ck_a, ck_b>>
    ELSE CalcChecksum(Tail(content), (ck_a + content[1]) % 256,
                      (ck_b + ((ck_a + content[1]) % 256)) % 256)

EncodeFrame(mclass, mid, payload) ==
    LET content == <<mclass, mid>> \o val2bytes(Len(payload), 2, TRUE) \o payload
    IN  UBX_HDR \o content \o CalcChecksum(content, 0, 0)

ClassVals == {5, 255}

IdVals == {0, 1}

PayloadBytes == {1, 6}

SeqsUpTo(S, n) == UNION {[1..k -> S] : k \in 0..n}

Payloads == SeqsUpTo(PayloadBytes, MaxPayload)

Frames == {EncodeFrame(c, i, p) : c \in ClassVals, i \in IdVals, p \in Payloads}

\* the framed message as read() is to return it
Framed(c, i, p) == [msgclass |-> c, msgid |-> i, payload |-> p, length |-> Len(p)]

\* one payload of each length, for the streams of several frames
SeqPayloads == {[k \in 1..n |-> IF k % 2 = 1 THEN 6 ELSE 1] : n \in 0..MaxPayload}

SeqTriples == {<<c, 1, p>> : c \in ClassVals, p \in SeqPayloads}

SeqFrames == {EncodeFrame(t[1], t[2], t[3]) : t \in SeqTriples}

RECURSIVE Concat(_)
Concat(ss) == IF ss = <<>> THEN <<>> ELSE ss[1] \o Concat(Tail(ss))

EncodeAll(ms) == Concat([k \in 1..Len(ms) |-> EncodeFrame(ms[k][1], ms[k][2], ms[k][3])])

FrameSeqs == {EncodeAll(ms) : ms \in SeqsUpTo(SeqTriples, MaxFrames)}

\* a frame with one byte of class, id, length, payload or checksum changed
MutateVals == {0, 57}

CorruptFrames ==
    UNION {{[f EXCEPT ![j] = v] : j \in 3..Len(f)} : f \in SeqFrames, v \in MutateVals}

\* a frame cut short after the sync bytes
TruncatedFrames == UNION {{SubSeq(f, 1, n) : n \in 2..(Len(f) - 1)} : f \in SeqFrames}

\* bytes that start no frame, ahead of a frame
GarbageBytes == {0, 98}

Garbage == SeqsUpTo(GarbageBytes, MaxGarbage) \ {<<>>}

GarbageStreams == {g \o f : g \in Garbage, f \in SeqFrames}

\* text sentences: "$G\r\n" and "$GP\r\n"
Sentences == {<<36, 71, 13, 10>>, <<36, 71, 80, 13, 10>>}

SentenceStreams == {t \o f : t \in Sentences, f \in SeqFrames}

Streams ==
    Frames \cup FrameSeqs \cup CorruptFrames \cup TruncatedFrames
        \cup GarbageStreams \cup SentenceStreams

Filters == {<<None, None>>, <<5, None>>, <<5, 1>>}

-----------------------------------------------------------------------------
(* The reader on a stream *)

BuiltIdle == [op |-> "idle", msgclass |-> 0, msgid |-> 0, payload |-> <<>>,
              msg |-> NoMessage]

ConvIdle == [op |-> "idle", bytesval |-> <<>>, bitfield |-> FALSE, val |-> 0,
             length |-> 0, out |-> 0, outbytes |-> <<>>]

\* UBXReader(stream, msgclass=.., msgid=.., quitonerror=..)
Init ==
    /\ stream \in Streams
    /\ pos = 0
    /\ closed = FALSE
    /\ \E flt \in Filters : msgclass = flt[1] /\ msgid = flt[2]
    /\ quitonerror \in BOOLEAN
    /\ validate = TRUE
    /\ results = <<>>
    /\ conv = ConvIdle
    /\ built = BuiltIdle

\* the caller calls read(); the stream may break at one of its reads
Read ==
    /\ Len(results) < MaxCalls
    /\ \E brk \in 0..6 :
        LET r == ReadCall(stream, pos, closed, brk, quitonerror)
        IN  /\ results' = Append(results, r)
            /\ pos' = r.end
            /\ closed' = (closed \/ r.caught)
    /\ UNCHANGED <<stream, msgclass, msgid, quitonerror, validate, conv, built>>

\* the caller closes the underlying stream between two calls
Close ==
    /\ ~closed
    /\ Len(results) < MaxCalls
    /\ closed' = TRUE
    /\ UNCHANGED <<stream, pos, msgclass, msgid, quitonerror, validate, results, conv,
                   built>>

Next == Read \/ Close

Spec == Init /\ [][Next]_vars

-----------------------------------------------------------------------------
(* Messages built by the caller next to those the reader returns *)

\* streams of one frame, whole or cut short
MsgStreams == Frames \cup TruncatedFrames

\* payload arguments: bytes of each length, and None
PayloadArgs == SeqPayloads \cup {NonePayload}

\* a reader on a stream, and the arguments of one UBXMessage(...)
InitMsg ==
    /\ stream \in MsgStreams
    /\ pos = 0
    /\ closed = FALSE
    /\ msgclass = None
    /\ msgid = None
    /\ quitonerror \in BOOLEAN
    /\ validate = TRUE
    /\ results = <<>>
    /\ conv = ConvIdle
    /\ \E c \in ClassVals, i \in IdVals, p \in PayloadArgs :
        built = [BuiltIdle EXCEPT !.op = "args", !.msgclass = c, !.msgid = i,
                                  !.payload = p]

\* UBXMessage(msgclass, msgid, payload)
Construct ==
    /\ built.op = "args"
    /\ built' = [built EXCEPT !.op = "built",
                              !.msg = UBXMessage(built.msgclass, built.msgid,
                                                 built.payload)]
    /\ UNCHANGED <<readerVars, conv>>

NextMsg == Read \/ Close \/ Construct

SpecMsg == InitMsg /\ [][NextMsg]_vars

-----------------------------------------------------------------------------
(* The conversion helpers on their own *)

ConvBytes == {0, 1, 2, 255}

ConvSeqs == SeqsUpTo(ConvBytes, MaxWidth)

\* values of up to MaxWidth bytes, and one that does not fit
ConvVals ==
    {d * Pow256(k) + e : d \in ConvBytes, e \in ConvBytes, k \in 0..(MaxWidth - 1)}
        \cup {Pow256(MaxWidth)}

InitConv ==
    /\ stream = <<>>
    /\ pos = 0
    /\ closed = FALSE
    /\ msgclass = None
    /\ msgid = None
    /\ quitonerror = FALSE
    /\ validate = TRUE
    /\ results = <<>>
    /\ built = BuiltIdle
    /\ \E b \in ConvSeqs, bf \in BOOLEAN :
        conv = [ConvIdle EXCEPT !.op = "init", !.bytesval = b, !.bitfield = bf]

\* bytes2val(bytesval, bitfield)
Bytes2Val ==
    /\ conv.op = "init"
    /\ conv' = [conv EXCEPT !.op = "bytes2val",
                            !.out = bytes2val(conv.bytesval, conv.bitfield)]
    /\ UNCHANGED <<readerVars, built>>

\* val2bytes(val, length, bitfield)
Val2Bytes ==
    /\ conv.op = "init"
    /\ \E v \in ConvVals, n \in 1..MaxWidth :
        conv' = [conv EXCEPT !.op = "val2bytes", !.val = v, !.length = n,
                             !.outbytes = val2bytes(v, n, conv.bitfield)]
    /\ UNCHANGED <<readerVars, built>>

\* bytes2val(val2bytes(val, length, bitfield), bitfield); a val2bytes that
\* raised gives no bytes to convert back
Bytes2ValBack ==
    /\ conv.op = "val2bytes"
    /\ conv.outbytes # OverflowError
    /\ conv' = [conv EXCEPT !.op = "val2bytes_bytes2val",
                            !.out = bytes2val(conv.outbytes, conv.bitfield)]
    /\ UNCHANGED <<readerVars, built>>

\* val2bytes(bytes2val(bytesval, bitfield), len(bytesval), bitfield)
Val2BytesBack ==
    /\ conv.op = "bytes2val"
    /\ conv' = [conv EXCEPT !.op = "bytes2val_val2bytes",
                            !.val = conv.out,
                            !.length = Len(conv.bytesval),
                            !.outbytes = val2bytes(conv.out, Len(conv.bytesval),
                                                  conv.bitfield)]
    /\ UNCHANGED <<readerVars, built>>

NextConv == Bytes2Val \/ Val2Bytes \/ Bytes2ValBack \/ Val2BytesBack

SpecConv == InitConv /\ [][NextConv]_vars

-----------------------------------------------------------------------------
(* Properties *)

\* no stream.read failed in the first k calls
NoFailure(k) == \A j \in 1..k : ~results[j].caught

\* the UBXMessage results among the first k calls
MessagesUpTo(k) == {j \in 1..k : results[j].kind = "msg"}

\* C1: a stream holding exactly one correctly framed message (class, id,
\* payload, the empty payload included) gives, on the first read(), a
\* message with that class, id and payload.
C1_FrameRoundTrip ==
    (/\ Len(results) >= 1
     /\ ~results[1].caught
     /\ stream \in Frames)
    => \A c \in ClassVals, i \in IdVals, p \in Payloads :
        stream = EncodeFrame(c, i, p)
        => /\ results[1].kind = "msg"
           /\ results[1].msg.msgclass = c
           /\ results[1].msg.msgid = i
           /\ results[1].msg.payload = p

\* B5 62 05 01 02 00 06 01 0F 38 was read as class 5, id 1, payload 06 01
C1_Witness ==
    /\ stream = <<181, 98, 5, 1, 2, 0, 6, 1, 15, 56>>
    /\ stream = EncodeFrame(5, 1, <<6, 1>>)
    /\ Len(results) >= 1
    /\ results[1].kind = "msg"
    /\ results[1].msg = Framed(5, 1, <<6, 1>>)

\* C2: read() never returns a message for a frame whose two trailing
\* checksum bytes differ from the checksum computed over class, id, length
\* and payload.
C2_ChecksumVerified ==
    \A k \in 1..Len(results) :
        (/\ validate
         /\ results[k].kind = "msg"
         /\ Len(results[k].checksum) = 2)
        => results[k].checksum =
               CalcChecksum(SubSeq(stream, results[k].start + 3, results[k].end - 2), 0, 0)

\* C3: on a stream that ends after the sync bytes and before the last
\* checksum byte, read() returns no message: it raises under quitonerror
\* and gives None otherwise.
C3_IncompleteFrame ==
    (/\ Len(results) >= 1
     /\ ~results[1].caught
     /\ stream \in TruncatedFrames)
    => results[1].kind = (IF quitonerror THEN "raise" ELSE "none")

\* C4: on a stream of garbage bytes followed by one valid frame, read to its
\* end, the first message produced is that frame, for every number of
\* garbage bytes.
C4_Resync ==
    (/\ pos = Len(stream)
     /\ NoFailure(Len(results)))
    => \A g \in Garbage, t \in SeqTriples :
        stream = g \o EncodeFrame(t[1], t[2], t[3])
        => \E k \in MessagesUpTo(Len(results)) :
            /\ results[k].msg = Framed(t[1], t[2], t[3])
            /\ \A j \in MessagesUpTo(Len(results)) : j >= k

\* the protocol a result of read() is tagged with; None is no result
ProtocolOf(r) == IF r.kind = "msg" THEN UBX_PROTOCOL ELSE 0

\* C5: a text sentence followed by one valid frame, read to the end, gives
\* exactly two results: the first of the text protocol, the second of the
\* binary protocol with the frame's class, id and payload.
C5_Interleaving ==
    (/\ pos = Len(stream)
     /\ NoFailure(Len(results)))
    => \A s \in Sentences, t \in SeqTriples :
        stream = s \o EncodeFrame(t[1], t[2], t[3])
        => \E k1, k2 \in 1..Len(results) :
            /\ k1 < k2
            /\ {j \in 1..Len(results) : results[j].kind # "none"} = {k1, k2}
            /\ ProtocolOf(results[k1]) = NMEA_PROTOCOL
            /\ ProtocolOf(results[k2]) = UBX_PROTOCOL
            /\ results[k2].msg = Framed(t[1], t[2], t[3])

\* C6: a call of read() in which a stream.read failed raises to the caller
\* under every error policy.
C6_StreamErrorsPropagate ==
    \A k \in 1..Len(results) : results[k].caught => results[k].kind = "raise"

\* C7: every message read() returns has as many payload bytes as the
\* length field of its frame declares.
C7_DeclaredLength ==
    \A k \in 1..Len(results) :
        results[k].kind = "msg" => Len(results[k].msg.payload) = results[k].length

\* the reader's filter accepts message m
FilterMatches(m) ==
    /\ msgclass = None \/ m.msgclass = msgclass
    /\ msgid = None \/ m.msgid = msgid

\* C8: with a filter configured read() never returns a message the filter
\* does not match, and on a non-matching frame followed by a matching one
\* the first call returns the matching frame.
C8_Filter ==
    /\ \A k \in 1..Len(results) :
        results[k].kind = "msg" => FilterMatches(results[k].msg)
    /\ (Len(results) >= 1 /\ ~results[1].caught)
       => \A t1, t2 \in SeqTriples :
            (/\ ~FilterMatches(Framed(t1[1], t1[2], t1[3]))
             /\ FilterMatches(Framed(t2[1], t2[2], t2[3]))
             /\ stream = EncodeAll(<<t1, t2>>))
            => /\ results[1].kind = "msg"
               /\ results[1].msg = Framed(t2[1], t2[2], t2[3])

\* the frames a stream of whole frames is made of
SplitOf ==
    [s \in FrameSeqs |->
        CHOOSE ms \in SeqsUpTo(SeqTriples, MaxFrames) : EncodeAll(ms) = s]

\* where the k-th frame of ms starts on the stream
RECURSIVE Offset(_, _)
Offset(ms, k) == IF k <= 1 THEN 0 ELSE Offset(ms, k - 1) + 8 + Len(ms[k - 1][3])

\* C9: on a stream of n valid frames the k-th call of read() starts at the
\* k-th frame, consumes exactly 8 + length bytes and returns that frame's
\* class, id and payload; every call after the n-th returns None, without
\* raising, at the end of the stream.
C9_OneFramePerCall ==
    stream \in FrameSeqs =>
        LET ms == SplitOf[stream]
        IN  \A k \in 1..Len(results) :
                NoFailure(k) =>
                    IF k <= Len(ms)
                    THEN /\ results[k].kind = "msg"
                         /\ results[k].msg = Framed(ms[k][1], ms[k][2], ms[k][3])
                         /\ results[k].start = Offset(ms, k)
                         /\ results[k].end = results[k].start + 8 + Len(ms[k][3])
                    ELSE /\ results[k].kind = "none"
                         /\ results[k].start = Len(stream)
                         /\ results[k].end = Len(stream)

\* two frames with payloads were read, then two calls found the end
C9_Witness ==
    /\ stream \in FrameSeqs
    /\ Len(SplitOf[stream]) = 2
    /\ Len(SplitOf[stream][1][3]) = 1
    /\ Len(SplitOf[stream][2][3]) = 2
    /\ Len(results) >= 4
    /\ NoFailure(4)
    /\ results[1].kind = "msg" /\ results[1].end = 9
    /\ results[2].kind = "msg" /\ results[2].end = 19
    /\ results[3].kind = "none"
    /\ results[4].kind = "none"
    /\ quitonerror

\* the value of bytes b taken least significant byte first
RECURSIVE LittleEndianSum(_, _)
LittleEndianSum(b, i) ==
    IF i > Len(b) THEN 0 ELSE b[i] * Pow256(i - 1) + LittleEndianSum(b, i + 1)

\* C10: bytes2val gives the little-endian value and val2bytes puts the
\* least significant byte first, for scalar and for bitfield values.
C10_LittleEndian ==
    /\ conv.op = "bytes2val" => conv.out = LittleEndianSum(conv.bytesval, 1)
    /\ (conv.op = "val2bytes" /\ conv.outbytes # OverflowError)
       => \A i \in 1..conv.length :
            conv.outbytes[i] = (conv.val \div Pow256(i - 1)) % 256

\* C11: for a width n >= 1 and a value 0 <= v < 256^n val2bytes gives
\* exactly n bytes and bytes2val of them gives v back; for n bytes b,
\* val2bytes of bytes2val(b) at width n gives b back; with and without
\* the bitfield flag.
C11_ConversionRoundTrip ==
    /\ (/\ conv.op \in {"val2bytes", "val2bytes_bytes2val"}
        /\ conv.val >= 0
        /\ conv.val < Pow256(conv.length))
       => /\ Len(conv.outbytes) = conv.length
          /\ \A i \in 1..conv.length : conv.outbytes[i] \in 0..255
          /\ conv.op = "val2bytes_bytes2val" => conv.out = conv.val
    /\ (conv.op = "bytes2val_val2bytes" /\ Len(conv.bytesval) >= 1)
       => conv.outbytes = conv.bytesval

\* 258 went through two bytes, most significant first, and back as a scalar
C11_Witness ==
    /\ conv.op = "val2bytes_bytes2val"
    /\ ~conv.bitfield
    /\ conv.val = 258
    /\ conv.length = 2
    /\ conv.outbytes = <<1, 2>>
    /\ conv.out = 258

\* m holds a bytes object and its length is the number of those bytes
LengthOfPayload(m) ==
    /\ m.length = Len(m.payload)
    /\ \A i \in 1..Len(m.payload) : m.payload[i] \in 0..255

\* C12: every UBXMessage, built directly or returned by read(), has
\* length = len(payload) with payload a bytes object; a None or empty
\* payload argument gives payload b"" and length 0; the length is that of
\* the bytes held whatever the length field on the wire declared.
C12_MessageLength ==
    /\ \A k \in 1..Len(results) :
        results[k].kind = "msg" => LengthOfPayload(results[k].msg)
    /\ built.op = "built"
       => /\ LengthOfPayload(built.msg)
          /\ built.payload \in {NonePayload, <<>>}
             => (built.msg.payload = <<>> /\ built.msg.length = 0)

\* a message was built with payload None, and read() returned one holding
\* fewer bytes than the wire declared
C12_Witness ==
    /\ built.op = "built"
    /\ built.payload = NonePayload
    /\ built.msg.length = 0
    /\ \E k \in 1..Len(results) :
        /\ results[k].kind = "msg"
        /\ results[k].length = 2
        /\ results[k].msg.length = 1

====
